---- MODULE Spec2Model ----
(***************************************************************************)
(* A model of the cluster-topology-analyzer core: the connectivity         *)
(* analysis of pkg/controller/connections.go and the manifest scan of the  *)
(* resourceFinder (searchForManifests, splitByYamlDocuments, parseK8sYaml, *)
(* getRelevantK8sResources) with the error constructors of                 *)
(* pkg/controller/error_types.go.                                          *)
(*                                                                         *)
(* Go strings that the code takes apart (addresses, service names) are     *)
(* sequences of one-character strings; strings that are only compared      *)
(* (selectors, namespaces, kinds) are TLA+ strings.                        *)
(***************************************************************************)
EXTENDS Integers, Sequences, FiniteSets, TLC

VARIABLES
    pc,                 \* position of the running operation
    resources,          \* discoverConnections: the workloads ([]common.Resource)
    links,              \* discoverConnections: the services ([]common.Service)
    deploymentServices, \* discoverConnections: findServices' result per workload
    connections,        \* discoverConnections: the returned edges
    stopOn1stErr,       \* resourceFinder.stopOn1stErr: fail-fast mode
    tree,               \* what walkFn reports, the root first, with the files' contents
    wi,                 \* searchForManifests: the next path walkFn reports
    manifestFiles,      \* getRelevantK8sResources: the YAML files found
    fileScanErrors,     \* getRelevantK8sResources: the errors met so far
    mi,                 \* getRelevantK8sResources: the manifest file parsed now
    yamlDocs,           \* parseK8sYaml: the documents of that file
    fileProcessingErrors, \* parseK8sYaml: the errors met in that file
    docID,              \* parseK8sYaml: the document parsed next (0-based)
    workloads,          \* resourceFinder.workloads
    services,           \* resourceFinder.services
    configmaps,         \* resourceFinder.configmaps
    servicesToExpose,   \* resourceFinder.servicesToExpose
    result              \* what the caller of the scan returns

connVars == <<resources, links, deploymentServices, connections>>

walkVars == <<wi, manifestFiles>>

fileVars == <<mi, yamlDocs, fileProcessingErrors, docID>>

rfVars == <<workloads, services, configmaps, servicesToExpose>>

scanVars == <<stopOn1stErr, tree, walkVars, fileScanErrors, fileVars, rfVars, result>>

vars == <<pc, connVars, scanVars>>

\* ------------------------------------------------------------------ bounds

MaxWorkloads == 2   \* longest workload list handed to discoverConnections
MaxServices  == 2   \* longest service list handed to discoverConnections
MaxSize      == 4   \* most paths under the root and YAML documents, taken together
MaxDocs      == 3   \* most documents of the manifest of resources

\* ------------------------------------------------------------- generalities

Range(s) == {s[i] : i \in 1..Len(s)}

SeqsUpTo(S, n) == UNION {[1..k -> S] : k \in 0..n}

\* ------------------------------------------------------------------ strings

Digits == <<"0", "1", "2", "3", "4", "5", "6", "7", "8", "9">>

\* fmt's %d of a non-negative int
RECURSIVE Itoa(_)
Itoa(n) == IF n < 10 THEN <<Digits[n + 1]>>
           ELSE Itoa(n \div 10) \o <<Digits[(n % 10) + 1]>>

\* fmt.Sprintf("%s:%d", name, port)
Sprintf(name, port) == name \o <<":">> \o Itoa(port)

HttpPrefix == <<"h", "t", "t", "p", ":", "/", "/">>

HttpsPrefix == <<"h", "t", "t", "p", "s", ":", "/", "/">>

\* strings.HasPrefix
HasPrefix(s, prefix) ==
    /\ Len(s) >= Len(prefix)
    /\ SubSeq(s, 1, Len(prefix)) = prefix

\* strings.TrimLeft: drops every leading character that is in the cutset
RECURSIVE TrimLeft(_, _)
TrimLeft(s, cutset) ==
    IF s # <<>> /\ Head(s) \in Range(cutset) THEN TrimLeft(Tail(s), cutset)
    ELSE s

\* strings.TrimPrefix: drops the literal prefix once, if present
TrimPrefix(s, prefix) ==
    IF HasPrefix(s, prefix) THEN SubSeq(s, Len(prefix) + 1, Len(s)) ELSE s

\* ------------------------------------------------ connectivity: the inputs

NameC == <<"c">>

NameTC == <<"t", "c">>

\* an address as written in an env value: an optional scheme, then host:port
Addr(scheme, name, port) == scheme \o Sprintf(name, port)

\* common.Resource, the fields the analysis reads or writes; Envs is the pool
\* of discovered network addresses
Workload(name, ns, labels, envs) ==
    [Name |-> name, Namespace |-> ns, Selectors |-> labels, Envs |-> envs,
     ConfigMapRefs |-> <<>>, ConfigMapKeyRefs |-> <<>>,
     UsedPorts |-> <<>>, FilePath |-> <<>>]

\* common.Service, the fields the analysis reads or writes
Service(name, ns, selectors, ports) ==
    [Name |-> name, Namespace |-> ns, Selectors |-> selectors,
     Network |-> [i \in 1..Len(ports) |-> [Port |-> ports[i]]],
     Type |-> "ClusterIP", ExposeExternally |-> FALSE, ExposeToCluster |-> FALSE,
     FilePath |-> <<>>]

WorkloadCatalog ==
    { Workload("front", "shop", <<"app:c">>, <<>>),
      Workload("client", "shop", <<>>, <<Addr(<<>>, NameC, 7)>>),
      Workload("web", "shop", <<"tier:x", "app:c">>,
               <<Addr(HttpPrefix, NameC, 7), Addr(<<>>, NameC, 7)>>),
      Workload("batch", "shop", <<"app:tc">>, <<Addr(HttpPrefix, NameTC, 7)>>),
      Workload("probe", "ops", <<"app:c">>,
               <<Addr(HttpsPrefix, NameC, 7), Addr(<<>>, NameTC, 80)>>),
      Workload("loop", "shop", <<"app:c", "app:tc">>,
               <<Addr(<<>>, NameC, 7), Addr(<<>>, NameC, 7)>>) }

ServiceCatalog ==
    { Service(NameC, "shop", <<"app:c">>, <<7>>),
      Service(NameTC, "shop", <<"app:tc">>, <<7, 80>>),
      Service(NameC, "shop", <<>>, <<80>>),
      Service(NameC, "shop", <<"App:c">>, <<7>>),
      Service(NameTC, "ops", <<"app:c", "tier:x">>, <<>>) }

\* ------------------------------------------- connectivity: connections.go

\* the containment test with the two lists in each other's place
areSelectorsContainedSwapped(selectors1, selectors2) ==
    \A i \in 1..Len(selectors1) : \E k \in 1..Len(selectors2) : selectors2[k] = selectors1[i]

\* areSelectorsContained returns true if selectors2 is contained in selectors1
areSelectorsContained(selectors1, selectors2) ==
    LET elementMap == {selectors1[i] : i \in 1..Len(selectors1)}
        RECURSIVE loop(_)
        loop(i) == IF i > Len(selectors2) THEN TRUE
                   ELSE IF selectors2[i] \notin elementMap THEN FALSE
                   ELSE loop(i + 1)
    IN  loop(1)

\* findServices: the services that may be in front of a deployment
findServices(selectors, lnks) ==
    LET RECURSIVE loop(_, _)
        loop(i, matchedSvc) ==
            IF i > Len(lnks) THEN matchedSvc
            ELSE IF areSelectorsContained(selectors, lnks[i].Selectors)
                 THEN loop(i + 1, Append(matchedSvc, lnks[i]))
                 ELSE loop(i + 1, matchedSvc)
    IN  loop(1, <<>>)

\* the address as findSource compares it with the endpoint
stripScheme(e) == IF HasPrefix(e, HttpPrefix) THEN TrimLeft(e, HttpPrefix) ELSE e

\* findSource: the resources that are likely trying to connect to the service;
\* the result is <<tRes, found>>
findSource(rsrcs, service) ==
    LET RECURSIVE envLoop(_, _, _, _)
        envLoop(p, r, k, acc) ==
            IF k > Len(r.Envs) THEN acc
            ELSE IF stripScheme(r.Envs[k]) = Sprintf(service.Name, p.Port)
                 THEN envLoop(p, r, k + 1,
                              [tRes |-> Append(acc.tRes, [r EXCEPT !.UsedPorts = <<p.Port>>]),
                               found |-> TRUE])
                 ELSE envLoop(p, r, k + 1, acc)
        RECURSIVE resLoop(_, _, _)
        resLoop(p, j, acc) ==
            IF j > Len(rsrcs) THEN acc
            ELSE resLoop(p, j + 1, envLoop(p, rsrcs[j], 1, acc))
        RECURSIVE portLoop(_, _)
        portLoop(i, acc) ==
            IF i > Len(service.Network) THEN acc
            ELSE portLoop(i + 1, resLoop(service.Network[i], 1, acc))
        res == portLoop(1, [tRes |-> <<>>, found |-> FALSE])
    IN  <<res.tRes, res.found>>

\* common.Connections; an absent source is the empty Source
Connection(source, target, link) ==
    [Source |-> source, Target |-> target, Link |-> link]

\* the edges discoverConnections appends for one (destRes, s)
connectionsOf(rsrcs, destRes, s) ==
    LET src == findSource(rsrcs, s)
    IN  IF src[2]
        THEN [k \in 1..Len(src[1]) |-> Connection(<<src[1][k]>>, destRes, s)]
        ELSE <<Connection(<<>>, destRes, s)>>

\* discoverConnections: for each resource, the resources that may use it
discoverConnections(rsrcs, lnks) ==
    LET RECURSIVE svcLoop(_, _, _, _)
        svcLoop(destRes, svcs, j, acc) ==
            IF j > Len(svcs) THEN acc
            ELSE svcLoop(destRes, svcs, j + 1, acc \o connectionsOf(rsrcs, destRes, svcs[j]))
        RECURSIVE resLoop(_, _)
        resLoop(i, acc) ==
            IF i > Len(rsrcs) THEN acc
            ELSE resLoop(i + 1,
                         svcLoop(rsrcs[i], findServices(rsrcs[i].Selectors, lnks), 1, acc))
    IN  resLoop(1, <<>>)

\* ------------------------------------------ connectivity: the specification

\* the scan's variables where no scan runs
ScanIdle ==
    /\ stopOn1stErr = FALSE
    /\ tree = <<>>
    /\ wi = 0
    /\ manifestFiles = <<>>
    /\ fileScanErrors = <<>>
    /\ mi = 0
    /\ yamlDocs = <<>>
    /\ fileProcessingErrors = <<>>
    /\ docID = 0
    /\ workloads = <<>>
    /\ services = <<>>
    /\ configmaps = <<>>
    /\ servicesToExpose = <<>>
    /\ result = <<>>

InitConn ==
    /\ ScanIdle
    /\ pc = "analyze"
    /\ resources \in SeqsUpTo(WorkloadCatalog, MaxWorkloads)
    /\ links \in SeqsUpTo(ServiceCatalog, MaxServices)
    /\ deploymentServices = <<>>
    /\ connections = <<>>

\* one call of discoverConnections(resources, links)
DiscoverConnections ==
    /\ pc = "analyze"
    /\ deploymentServices' =
           [i \in 1..Len(resources) |-> findServices(resources[i].Selectors, links)]
    /\ connections' = discoverConnections(resources, links)
    /\ pc' = "analyzed"
    /\ UNCHANGED <<resources, links, scanVars>>

NextConn == DiscoverConnections

SpecConn == InitConn /\ [][NextConn]_vars

\* ------------------------------------------------------ scan: error values

\* the empty file path of an error that belongs to no file
NoPath == <<>>

\* newFileProcessingError: the error value, its text reduced to msg
newFileProcessingError(msg, filePath, lineNum, docId, fatal, severe) ==
    [msg |-> msg, filePath |-> filePath, lineNum |-> lineNum, docID |-> docId,
     fatal |-> fatal, severe |-> severe]

noYamlsFound ==
    newFileProcessingError("no yaml files found", NoPath, 0, -1, FALSE, FALSE)

noK8sResourcesFound ==
    newFileProcessingError("no relevant Kubernetes resources found", NoPath, 0, -1,
                           FALSE, FALSE)

configMapNotFound(cfgMapName, resourceName) ==
    newFileProcessingError("configmap " \o cfgMapName \o " not found (referenced by "
                               \o resourceName \o ")",
                           NoPath, 0, -1, FALSE, FALSE)

\* the error of a missing key, told as the error of a missing config map
configMapKeyNotFoundAsNotFound(cfgMapName, cfgMapKey, resourceName) ==
    configMapNotFound(cfgMapName, resourceName)

configMapKeyNotFound(cfgMapName, cfgMapKey, resourceName) ==
    newFileProcessingError("configmap " \o cfgMapName \o " does not have key " \o cfgMapKey
                               \o " (referenced by " \o resourceName \o ")",
                           NoPath, 0, -1, FALSE, FALSE)

failedScanningResource(resourceType, filePath) ==
    newFileProcessingError("error scanning " \o resourceType \o " resource", filePath, 0, -1,
                           FALSE, FALSE)

\* the error of a document that is not a K8s resource, made a severe one
notK8sResourceSevere(filePath, docId) ==
    newFileProcessingError("Yaml document is not a K8s resource", filePath, 0, docId,
                           FALSE, TRUE)

notK8sResource(filePath, docId) ==
    newFileProcessingError("Yaml document is not a K8s resource", filePath, 0, docId,
                           FALSE, FALSE)

malformedYamlDoc(filePath, lineNum, docId) ==
    newFileProcessingError("YAML document is malformed", filePath, lineNum, docId,
                           FALSE, TRUE)

failedReadingFile(filePath) ==
    newFileProcessingError("error reading file", filePath, 0, -1, FALSE, TRUE)

\* the directory-access error that is fatal for no path
failedAccessingDirNeverFatal(dirPath, isSubDir) ==
    newFileProcessingError("error accessing directory", dirPath, 0, -1, FALSE, TRUE)

\* the directory-access error with the two cases in each other's place
failedAccessingDirSwapped(dirPath, isSubDir) ==
    newFileProcessingError("error accessing directory", dirPath, 0, -1, isSubDir, TRUE)

failedAccessingDir(dirPath, isSubDir) ==
    newFileProcessingError("error accessing directory", dirPath, 0, -1, ~isSubDir, TRUE)

\* the directory-scan error built fatal and not severe
failedWalkDirNotSevere(dirPath) ==
    newFileProcessingError("error scanning directory", dirPath, 0, -1, TRUE, FALSE)

failedWalkDir(dirPath) ==
    newFileProcessingError("error scanning directory", dirPath, 0, -1, TRUE, TRUE)

\* the methods of FileProcessingError; DocumentID gives <<the ID, whether it
\* is available>>
File(e) == e.filePath

LineNo(e) == e.lineNum

DocumentID(e) == IF e.docID < 0 THEN <<-1, FALSE>> ELSE <<e.docID, TRUE>>

IsFatal(e) == e.fatal

IsSevere(e) == e.severe

\* appendAndLogNewError: logs the new error and appends it
appendAndLogNewError(errs, newErr) == Append(errs, newErr)

\* stopProcessing: whether the errors met so far end the pass: a fatal error
\* always does, and in fail-fast mode any error does
stopProcessing(failFast, errs) ==
    \E i \in 1..Len(errs) : errs[i].fatal \/ failFast

\* ---------------------------------------------------- scan: the file system

\* the directory handed to getRelevantK8sResources
RepoDir == <<"repo">>

EntryNames == <<"a", "b", "c", "d", "e", "f">>

\* the kinds of YAML document a manifest holds. root is the type of the
\* document's root node; k8s says whether the universal deserializer decodes
\* it; kind is the decoded kind; obj is what the kind's scanner reads.
NullDoc == [root |-> "null", k8s |-> FALSE, kind |-> "", obj |-> <<>>]

GarbageDoc == [root |-> "mapping", k8s |-> FALSE, kind |-> "", obj |-> <<>>]

CronJobDoc == [root |-> "mapping", k8s |-> TRUE, kind |-> "CronJob", obj |-> <<>>]

PodDoc == [root |-> "mapping", k8s |-> TRUE, kind |-> "Pod", obj |-> <<>>]

DeploymentDoc ==
    [root |-> "mapping", k8s |-> TRUE, kind |-> "Deployment",
     obj |-> Workload("front", "shop", <<"app:c">>, <<Addr(<<>>, NameC, 7)>>)]

ServiceDoc ==
    [root |-> "mapping", k8s |-> TRUE, kind |-> "Service",
     obj |-> Service(NameC, "shop", <<"app:c">>, <<7>>)]

DocCatalog == {NullDoc, GarbageDoc, CronJobDoc, PodDoc, DeploymentDoc, ServiceDoc}

\* the document with its 0-based position in its file written into it
Numbered(docs) ==
    [i \in 1..Len(docs) |->
        [root |-> docs[i].root, k8s |-> docs[i].k8s, kind |-> docs[i].kind,
         obj |-> docs[i].obj, ord |-> i - 1]]

\* what the walker reports for one path, and what reading the path gives:
\* err: the walker could not access it; isDir, yaml: a directory, a name with a
\* YAML suffix; readable, docs, malformed: os.ReadFile succeeds, the documents
\* the YAML decoder yields, and whether it then fails instead of reaching EOF
Entry(err, isDir, yaml, readable, docs, malformed) ==
    [err |-> err, isDir |-> isDir, yaml |-> yaml, readable |-> readable,
     docs |-> Numbered(docs), malformed |-> malformed]

AccessErrorEntry == Entry(TRUE, TRUE, FALSE, FALSE, <<>>, FALSE)

DirEntry == Entry(FALSE, TRUE, FALSE, FALSE, <<>>, FALSE)

YamlNamedDirEntry == Entry(FALSE, TRUE, TRUE, FALSE, <<>>, FALSE)

OtherFileEntry == Entry(FALSE, FALSE, FALSE, TRUE, <<>>, FALSE)

UnreadableYamlEntry == Entry(FALSE, FALSE, TRUE, FALSE, <<>>, FALSE)

\* the YAML files of at most budget documents
YamlEntries(budget) ==
    {Entry(FALSE, FALSE, TRUE, TRUE, docs, malformed) :
        docs \in SeqsUpTo(DocCatalog, budget), malformed \in BOOLEAN}

\* the sequences of entries that hold at most size paths and documents,
\* taken together
RECURSIVE Trees(_)
Trees(size) ==
    IF size <= 0 THEN {<<>>}
    ELSE {<<>>} \cup
         UNION {{<<e>> \o rest : rest \in Trees(size - 1 - Len(e.docs))} :
                   e \in {AccessErrorEntry, YamlNamedDirEntry, OtherFileEntry,
                          UnreadableYamlEntry}
                         \cup YamlEntries(size - 1)}

\* the path of the i-th entry under the root
PathOf(i) == RepoDir \o <<EntryNames[i]>>

\* pathWithoutBaseDir: the file path without its prefix base dir
pathWithoutBaseDir(path, baseDir) ==
    IF path = baseDir THEN <<path[Len(path)]>>
    ELSE IF HasPrefix(path, baseDir) THEN SubSeq(path, Len(baseDir) + 1, Len(path))
    ELSE path

\* ------------------------------------------------- scan: pkg/analyzer/scan.go

IsDigit(c) == \E i \in 1..Len(Digits) : Digits[i] = c

IsLetter(c) ==
    c \in {"a", "b", "c", "d", "e", "f", "g", "h", "i", "j", "k", "l", "m", "n", "o",
           "p", "q", "r", "s", "t", "u", "v", "w", "x", "y", "z"}

IndexOf(s, c) ==
    IF \E i \in 1..Len(s) : s[i] = c
    THEN CHOOSE i \in 1..Len(s) : s[i] = c /\ \A k \in 1..(i - 1) : s[k] # c
    ELSE 0

DigitValue(c) == (CHOOSE i \in 1..Len(Digits) : Digits[i] = c) - 1

\* an optional sign, then one or more digits
IsIntegerSyntax(value) ==
    LET digits == IF value # <<>> /\ Head(value) \in {"+", "-"} THEN Tail(value) ELSE value
    IN  digits # <<>> /\ \A i \in 1..Len(digits) : IsDigit(digits[i])

\* the largest value of a 64-bit int, 1<<63 - 1, in decimal
MaxInt64 ==
    <<"9", "2", "2", "3", "3", "7", "2", "0", "3", "6", "8", "5", "4", "7", "7", "5",
      "8", "0", "7">>

\* the decimal number a, without leading zeros, is at most the number b
RECURSIVE DecimalLeq(_, _)
DecimalLeq(a, b) ==
    IF Len(a) # Len(b) THEN Len(a) < Len(b)
    ELSE IF a = <<>> THEN TRUE
    ELSE IF Head(a) # Head(b) THEN DigitValue(Head(a)) < DigitValue(Head(b))
    ELSE DecimalLeq(Tail(a), Tail(b))

\* whether the digits fit the 64-bit int: at most 1<<63 - 1, and 1<<63 after a
\* minus sign
FitsInt64(value) ==
    LET negative == Head(value) = "-"
        digits == IF Head(value) \in {"+", "-"} THEN Tail(value) ELSE value
        number == TrimLeft(digits, <<"0">>)
        limit == IF negative THEN [MaxInt64 EXCEPT ![Len(MaxInt64)] = "8"] ELSE MaxInt64
    IN  DecimalLeq(number, limit)

\* strconv.Atoi succeeds: an optional sign, then one or more digits, of a
\* value within the range of int
AtoiOk(value) == IsIntegerSyntax(value) /\ FitsInt64(value)

\* url's getScheme: the length of the scheme (0: none), or -1 for its error
RECURSIVE getScheme(_, _)
getScheme(rawURL, i) ==
    IF i > Len(rawURL) THEN 0
    ELSE IF IsLetter(rawURL[i]) THEN getScheme(rawURL, i + 1)
    ELSE IF IsDigit(rawURL[i]) \/ rawURL[i] \in {"+", "-", "."}
         THEN IF i = 1 THEN 0 ELSE getScheme(rawURL, i + 1)
    ELSE IF rawURL[i] = ":" THEN IF i = 1 THEN -1 ELSE i - 1
    ELSE 0

LastIndexOf(s, c) ==
    IF \E i \in 1..Len(s) : s[i] = c
    THEN CHOOSE i \in 1..Len(s) : s[i] = c /\ \A k \in (i + 1)..Len(s) : s[k] # c
    ELSE 0

\* the part of s before its first "/"
FirstSegment(s) ==
    IF IndexOf(s, "/") = 0 THEN s ELSE SubSeq(s, 1, IndexOf(s, "/") - 1)

\* url's parseHost: what follows the last colon of the host is a port
parseHostOk(host) ==
    LastIndexOf(host, ":") > 0 =>
        \A i \in (LastIndexOf(host, ":") + 1)..Len(host) : IsDigit(host[i])

\* url's parse, after the scheme of length n is cut off
parseRestOk(n, rest) ==
    IF ~HasPrefix(rest, <<"/">>)
    THEN n > 0 \/ IndexOf(FirstSegment(rest), ":") = 0
    ELSE IF HasPrefix(rest, <<"/", "/">>) /\ (n > 0 \/ ~HasPrefix(rest, <<"/", "/", "/">>))
    THEN parseHostOk(FirstSegment(SubSeq(rest, 3, Len(rest))))
    ELSE TRUE

\* the URL after its scheme of length n and the colon
AfterScheme(rawURL, n) == IF n > 0 THEN SubSeq(rawURL, n + 2, Len(rawURL)) ELSE rawURL

\* url.Parse succeeds, for strings of letters, digits and the characters : / . + -
UrlParseOk(rawURL) ==
    /\ getScheme(rawURL, 1) >= 0
    /\ parseRestOk(getScheme(rawURL, 1), AfterScheme(rawURL, getScheme(rawURL, 1)))

\* IsNetworkAddressValue checks if a given string is a potential network address
IsNetworkAddressValue(value) == UrlParseOk(value) /\ ~AtoiOk(value)

WorkloadKinds ==
    {"ReplicaSet", "ReplicationController", "Deployment", "DaemonSet", "StatefulSet", "Job"}

\* parseDeployResource: of the literal env values and the arguments of the
\* containers, which the object lists in Envs, the pool keeps those that are
\* potential network addresses; the references to config maps are stored as
\* they are
parseDeployResource(obj) ==
    [obj EXCEPT !.Envs = SelectSeq(@, IsNetworkAddressValue)]

\* ScanK8sWorkloadObject: <<the resource, whether an error is returned>>
ScanK8sWorkloadObject(kind, obj) ==
    IF kind \in WorkloadKinds THEN <<parseDeployResource(obj), FALSE>> ELSE <<obj, TRUE>>

\* ScanK8sConfigmapObject: the full name and the address-like part of the
\* data, a set of <<key, value>> with one value per key
ScanK8sConfigmapObject(obj) ==
    [FullName |-> obj.Namespace \o "/" \o obj.Name,
     Data |-> {kv \in obj.Data : IsNetworkAddressValue(kv[2])}]

\* ScanK8sServiceObject: the service with its exposure flags as its type
\* gives them
ScanK8sServiceObject(obj) ==
    [obj EXCEPT !.ExposeExternally = obj.Type \in {"LoadBalancer", "NodePort"},
                !.ExposeToCluster = FALSE]

\* ScanOCRouteObject and ScanIngressObject: every backend service of the object
\* is entered into servicesToExpose with the value false
\* a scanner that asks for the external exposure of the backend services
ScanRouteOrIngressExternal(obj, toExpose) ==
    [key \in DOMAIN toExpose \cup {<<obj.Namespace, b>> : b \in obj.Backends} |->
        IF key \in {<<obj.Namespace, b>> : b \in obj.Backends} THEN TRUE
        ELSE toExpose[key]]

ScanRouteOrIngress(obj, toExpose) ==
    [key \in DOMAIN toExpose \cup {<<obj.Namespace, b>> : b \in obj.Backends} |->
        IF key \in {<<obj.Namespace, b>> : b \in obj.Backends} THEN FALSE
        ELSE toExpose[key]]

\* ---------------------------------------------- scan: the resourceFinder

AcceptedK8sTypes ==
    {"Pod", "ReplicaSet", "ReplicationController", "Deployment", "DaemonSet",
     "StatefulSet", "Job", "CronTab", "Service", "ConfigMap", "Route", "Ingress"}

\* the test of the root node that lets every document through
isAnyNode(doc) == TRUE

\* doc.Content[0].Kind == yaml.MappingNode
isMappingNode(doc) == doc.root = "mapping"

\* the document counter of splitByYamlDocuments that skips dropped documents
nextDocumentIDOfMappings(documentID, doc) ==
    IF isMappingNode(doc) THEN documentID + 1 ELSE documentID

\* documentID += 1
nextDocumentID(documentID, doc) == documentID + 1

\* splitByYamlDocuments: the documents of a YAML file as raw text, with the
\* errors met: [documents, errors]
splitByYamlDocuments(mfp, file) ==
    LET RECURSIVE loop(_, _, _)
        loop(i, documents, documentID) ==
            IF i > Len(file.docs)
            THEN IF file.malformed
                 THEN [documents |-> documents,
                       errors |-> appendAndLogNewError(<<>>, malformedYamlDoc(mfp, 0, documentID))]
                 ELSE [documents |-> documents, errors |-> <<>>]
            ELSE loop(i + 1,
                      IF isMappingNode(file.docs[i]) THEN Append(documents, file.docs[i])
                      ELSE documents,
                      nextDocumentID(documentID, file.docs[i]))
    IN  IF ~file.readable
        THEN [documents |-> <<>>,
              errors |-> appendAndLogNewError(<<>>, failedReadingFile(mfp))]
        ELSE loop(1, <<>>, 0)

\* parseResource: the collections of the resourceFinder after the document is
\* parsed into one of them, and whether an error is returned
parseResource(kind, doc, manifestFilePath, rf) ==
    CASE kind = "Service" ->
            [rf EXCEPT !.services =
                           Append(@, [ScanK8sServiceObject(doc.obj)
                                          EXCEPT !.FilePath = manifestFilePath])]
      [] kind \in {"Route", "Ingress"} ->
            [rf EXCEPT !.servicesToExpose = ScanRouteOrIngress(doc.obj, @)]
      [] kind = "ConfigMap" ->
            [rf EXCEPT !.configmaps = Append(@, ScanK8sConfigmapObject(doc.obj))]
      [] OTHER ->
            IF ScanK8sWorkloadObject(kind, doc.obj)[2]
            THEN [rf EXCEPT !.err = TRUE]
            ELSE [rf EXCEPT !.workloads =
                                Append(@, [ScanK8sWorkloadObject(kind, doc.obj)[1]
                                               EXCEPT !.FilePath = manifestFilePath])]

\* ------------------------------------- scan: resolution and exposure

\* analyzer.NetworkAddressValue: <<the network address, whether there is one>>
NetworkAddressValue(value) == <<value, IsNetworkAddressValue(value)>>

\* cfgMapsByName[fullName], as a sequence of at most one config map: of the
\* config maps of one name the last one found is kept
\* cfgMapsByName that keeps no config map at all
cfgMapsByNameEmpty(cms, fullName) == <<>>

cfgMapsByName(cms, fullName) ==
    LET hits == {i \in 1..Len(cms) : cms[i].FullName = fullName}
    IN  IF hits = {} THEN <<>>
        ELSE <<cms[CHOOSE i \in hits : \A j \in hits : j <= i]>>

\* the orders in which a range loop may visit the entries of a map
Perms(S) ==
    {p \in [1..Cardinality(S) -> S] : \A x \in S : \E i \in 1..Cardinality(S) : p[i] = x}

\* every <<key, value>> of the config maps
AllData(cms) == UNION {cms[i].Data : i \in 1..Len(cms)}

\* the references to whole config maps, by workload and position
RefSlots(wls) ==
    UNION {{<<i, r>> : r \in 1..Len(wls[i].ConfigMapRefs)} : i \in 1..Len(wls)}

\* the network addresses among the values of data, in the order visited
addressesOf(data, visited) ==
    LET netAddrs == [n \in 1..Len(visited) |-> NetworkAddressValue(visited[n][2])]
        IsIn(n) == visited[n] \in data /\ netAddrs[n][2]
        RECURSIVE loop(_, _)
        loop(n, acc) ==
            IF n > Len(visited) THEN acc
            ELSE loop(n + 1, IF IsIn(n) THEN Append(acc, netAddrs[n][1]) ELSE acc)
    IN  loop(1, <<>>)

\* inlineConfigMapRefsAsEnvs for the i-th workload res: its address pool and
\* the errors after its references are inlined; order[<<i, r>>] is the order
\* in which the data of the r-th referenced config map is visited
inlineRefs(res, i, cms, order, parseErrors) ==
    LET \* one round of the loop over res.Resource.ConfigMapRefs
        envFrom(r, acc) ==
            LET configmapFullName == res.Namespace \o "/" \o res.ConfigMapRefs[r]
                cfgMap == cfgMapsByName(cms, configmapFullName)
            IN  IF cfgMap # <<>>
                THEN [acc EXCEPT !.addrs =
                          @ \o addressesOf(cfgMap[1].Data, order[<<i, r>>])]
                ELSE [acc EXCEPT !.errors =
                          appendAndLogNewError(
                              @, configMapNotFound(configmapFullName, res.Name))]
        \* one round of the loop over res.Resource.ConfigMapKeyRefs
        valueFrom(r, acc) ==
            LET cfgMapKeyRef == res.ConfigMapKeyRefs[r]
                configmapFullName == res.Namespace \o "/" \o cfgMapKeyRef.Name
                cfgMap == cfgMapsByName(cms, configmapFullName)
                vals == IF cfgMap = <<>> THEN {}
                        ELSE {kv[2] : kv \in {d \in cfgMap[1].Data : d[1] = cfgMapKeyRef.Key}}
                netAddr == NetworkAddressValue(CHOOSE v \in vals : TRUE)
            IN  IF cfgMap = <<>>
                THEN [acc EXCEPT !.errors =
                          appendAndLogNewError(
                              @, configMapNotFound(configmapFullName, res.Name))]
                ELSE IF vals = {}
                THEN [acc EXCEPT !.errors =
                          appendAndLogNewError(
                              @, configMapKeyNotFound(cfgMapKeyRef.Name, cfgMapKeyRef.Key,
                                                      res.Name))]
                ELSE IF netAddr[2] THEN [acc EXCEPT !.addrs = Append(@, netAddr[1])]
                ELSE acc
        RECURSIVE whole(_, _)
        whole(r, acc) ==
            IF r > Len(res.ConfigMapRefs) THEN acc ELSE whole(r + 1, envFrom(r, acc))
        RECURSIVE keyed(_, _)
        keyed(r, acc) ==
            IF r > Len(res.ConfigMapKeyRefs) THEN acc ELSE keyed(r + 1, valueFrom(r, acc))
    IN  keyed(1, whole(1, [addrs |-> res.Envs, errors |-> parseErrors]))

\* inlineConfigMapRefsAsEnvs appends to the address pool of each workload the
\* config-map values it is referring to: [workloads, errors]
inlineConfigMapRefsAsEnvs(wls, cms, order) ==
    LET RECURSIVE loop(_, _)
        loop(i, acc) ==
            IF i > Len(wls) THEN acc
            ELSE LET inlined == inlineRefs(wls[i], i, cms, order, acc.errors)
                 IN  loop(i + 1,
                          [workloads |-> Append(acc.workloads,
                                                [wls[i] EXCEPT !.Envs = inlined.addrs]),
                           errors |-> inlined.errors])
    IN  loop(1, [workloads |-> <<>>, errors |-> <<>>])

\* exposeServices changes the exposure of the services pointed at by a Route
\* or an Ingress
\* exposeServices that leaves every service as it was created
exposeServicesNone(svcs, toExpose) == svcs

exposeServices(svcs, toExpose) ==
    [i \in 1..Len(svcs) |->
        LET key == <<svcs[i].Namespace, svcs[i].Name>>
        IN  IF key \notin DOMAIN toExpose THEN svcs[i]
            ELSE IF toExpose[key] THEN [svcs[i] EXCEPT !.ExposeExternally = TRUE]
            ELSE [svcs[i] EXCEPT !.ExposeToCluster = TRUE]]

\* ------------------------------------------------ scan: the specification

\* the paths walkFn reports: the root, which is a directory with the entries
\* under it, a directory that cannot be accessed, or a single file
WithPaths(entries) ==
    [i \in 1..Len(entries) |->
        [path |-> IF i = 1 THEN RepoDir ELSE PathOf(i - 1), err |-> entries[i].err,
         isDir |-> entries[i].isDir, yaml |-> entries[i].yaml,
         readable |-> entries[i].readable, docs |-> entries[i].docs,
         malformed |-> entries[i].malformed]]

Roots ==
    {<<AccessErrorEntry>>}
    \cup {<<e>> : e \in {UnreadableYamlEntry} \cup YamlEntries(MaxSize - 1)}
    \cup {<<DirEntry>> \o entries : entries \in Trees(MaxSize)}

Init ==
    /\ pc = "walk"
    /\ resources = <<>>
    /\ links = <<>>
    /\ deploymentServices = <<>>
    /\ connections = <<>>
    /\ stopOn1stErr \in BOOLEAN
    /\ tree \in {WithPaths(r) : r \in Roots}
    /\ wi = 1
    /\ manifestFiles = <<>>
    /\ fileScanErrors = <<>>
    /\ mi = 0
    /\ yamlDocs = <<>>
    /\ fileProcessingErrors = <<>>
    /\ docID = 0
    /\ workloads = <<>>
    /\ services = <<>>
    /\ configmaps = <<>>
    /\ servicesToExpose = <<>>
    /\ result = <<>>

\* searchForManifests: one call of the function handed to walkFn. On an access
\* error the error is recorded and the walk is aborted (the error is returned)
\* or the branch is skipped (filepath.SkipDir); the walk ends with its last path.
WalkFn ==
    /\ pc = "walk"
    /\ wi <= Len(tree)
    /\ LET f == tree[wi]
           errors == appendAndLogNewError(fileScanErrors,
                                          failedAccessingDir(f.path, f.path # RepoDir))
       IN  IF f.err
           THEN /\ fileScanErrors' = errors
                /\ manifestFiles' = manifestFiles
                /\ pc' = IF stopProcessing(stopOn1stErr, errors) \/ wi = Len(tree)
                         THEN "searched" ELSE "walk"
           ELSE /\ fileScanErrors' = fileScanErrors
                /\ manifestFiles' = IF ~f.isDir /\ f.yaml THEN Append(manifestFiles, f.path)
                                    ELSE manifestFiles
                /\ pc' = IF wi = Len(tree) THEN "searched" ELSE "walk"
    /\ wi' = wi + 1
    /\ UNCHANGED <<connVars, stopOn1stErr, tree, fileVars, rfVars, result>>

\* getRelevantK8sResources, from the return of searchForManifests to the loop
\* over the manifest files
SearchReturned ==
    /\ pc = "searched"
    /\ IF stopProcessing(stopOn1stErr, fileScanErrors)
       THEN /\ pc' = "scanned"
            /\ UNCHANGED <<fileScanErrors, mi>>
       ELSE IF Len(manifestFiles) = 0
       THEN /\ fileScanErrors' = appendAndLogNewError(fileScanErrors, noYamlsFound)
            /\ pc' = "scanned"
            /\ mi' = mi
       ELSE /\ mi' = 1
            /\ pc' = "file"
            /\ UNCHANGED fileScanErrors
    /\ UNCHANGED <<connVars, stopOn1stErr, tree, walkVars, yamlDocs, fileProcessingErrors,
                   docID, rfVars, result>>

\* the file whose path is mfp
FileAt(mfp) == CHOOSE f \in Range(tree) : f.path = mfp

\* parseK8sYaml has returned errs: getRelevantK8sResources appends them and goes
\* on to the next manifest file, or returns
FileReturned(errs) ==
    /\ fileScanErrors' = fileScanErrors \o errs
    /\ fileProcessingErrors' = <<>>
    /\ yamlDocs' = <<>>
    /\ docID' = 0
    /\ IF stopProcessing(stopOn1stErr, fileScanErrors \o errs) \/ mi = Len(manifestFiles)
       THEN pc' = "scanned" /\ mi' = mi
       ELSE pc' = "file" /\ mi' = mi + 1

\* parseK8sYaml, up to its loop: the file is split into its documents
ParseK8sYaml ==
    /\ pc = "file"
    /\ LET mfp == manifestFiles[mi]
           split == splitByYamlDocuments(mfp, FileAt(mfp))
       IN  IF stopProcessing(stopOn1stErr, split.errors)
           THEN FileReturned(split.errors)
           ELSE /\ yamlDocs' = split.documents
                /\ fileProcessingErrors' = split.errors
                /\ docID' = 0
                /\ pc' = "docs"
                /\ UNCHANGED <<fileScanErrors, mi>>
    /\ UNCHANGED <<connVars, stopOn1stErr, tree, walkVars, rfVars, result>>

\* parseK8sYaml: one round of the loop over the documents
ParseDocument ==
    /\ pc = "docs"
    /\ docID < Len(yamlDocs)
    /\ LET doc == yamlDocs[docID + 1]
           relMfp == pathWithoutBaseDir(manifestFiles[mi], RepoDir)
           rf == [workloads |-> workloads, services |-> services,
                  configmaps |-> configmaps, servicesToExpose |-> servicesToExpose,
                  err |-> FALSE]
           parsed == parseResource(doc.kind, doc, relMfp, rf)
       IN  IF ~doc.k8s
           THEN /\ fileProcessingErrors' =
                       appendAndLogNewError(fileProcessingErrors, notK8sResource(relMfp, docID))
                /\ UNCHANGED rfVars
           ELSE IF doc.kind \notin AcceptedK8sTypes
           THEN UNCHANGED <<fileProcessingErrors, rfVars>>
           ELSE /\ workloads' = parsed.workloads
                /\ services' = parsed.services
                /\ configmaps' = parsed.configmaps
                /\ servicesToExpose' = parsed.servicesToExpose
                /\ fileProcessingErrors' =
                       IF parsed.err
                       THEN appendAndLogNewError(fileProcessingErrors,
                                                 failedScanningResource(doc.kind, relMfp))
                       ELSE fileProcessingErrors
    /\ docID' = docID + 1
    /\ UNCHANGED <<pc, connVars, stopOn1stErr, tree, walkVars, fileScanErrors, mi,
                   yamlDocs, result>>

\* parseK8sYaml returns after its last document
ParseK8sYamlReturn ==
    /\ pc = "docs"
    /\ docID = Len(yamlDocs)
    /\ FileReturned(fileProcessingErrors)
    /\ UNCHANGED <<connVars, stopOn1stErr, tree, walkVars, rfVars, result>>

\* the caller of getRelevantK8sResources goes on, unless the errors stop the
\* processing, with one call of inlineConfigMapRefsAsEnvs
InlineConfigMapRefsAsEnvs ==
    /\ pc = "scanned"
    /\ ~stopProcessing(stopOn1stErr, fileScanErrors)
    /\ \E order \in [RefSlots(workloads) -> Perms(AllData(configmaps))] :
           LET inlined == inlineConfigMapRefsAsEnvs(workloads, configmaps, order)
           IN  /\ workloads' = inlined.workloads
               /\ fileScanErrors' = fileScanErrors \o inlined.errors
    /\ pc' = "resolved"
    /\ UNCHANGED <<connVars, stopOn1stErr, tree, walkVars, fileVars, services, configmaps,
                   servicesToExpose, result>>

\* and then, unless the errors stop the processing, with one call of
\* exposeServices
ExposeServices ==
    /\ pc = "resolved"
    /\ ~stopProcessing(stopOn1stErr, fileScanErrors)
    /\ services' = exposeServices(services, servicesToExpose)
    /\ pc' = "exposed"
    /\ UNCHANGED <<connVars, stopOn1stErr, tree, walkVars, fileScanErrors, fileVars,
                   workloads, configmaps, servicesToExpose, result>>

\* the caller of getRelevantK8sResources returns: when the errors stop the
\* processing it returns them and nothing else; otherwise it returns what was
\* found and the connections between them
ExtractConnections ==
    /\ \/ pc \in {"scanned", "resolved"} /\ stopProcessing(stopOn1stErr, fileScanErrors)
       \/ pc = "exposed"
    /\ result' =
           IF stopProcessing(stopOn1stErr, fileScanErrors)
           THEN [errors |-> fileScanErrors, workloads |-> <<>>, services |-> <<>>,
                 configmaps |-> <<>>, connections |-> <<>>,
                 fatal |-> \E i \in 1..Len(fileScanErrors) : fileScanErrors[i].fatal]
           ELSE IF Len(workloads) = 0
           THEN [errors |-> appendAndLogNewError(fileScanErrors, noK8sResourcesFound),
                 workloads |-> <<>>, services |-> <<>>, configmaps |-> <<>>,
                 connections |-> <<>>, fatal |-> FALSE]
           ELSE [errors |-> fileScanErrors, workloads |-> workloads, services |-> services,
                 configmaps |-> configmaps,
                 connections |-> discoverConnections(workloads, services),
                 fatal |-> FALSE]
    /\ pc' = "returned"
    /\ UNCHANGED <<connVars, stopOn1stErr, tree, walkVars, fileScanErrors, fileVars, rfVars>>

\* --------------------------------- scan: a manifest of resources

AddrC7 == Addr(<<>>, NameC, 7)

HttpC7 == Addr(HttpPrefix, NameC, 7)

\* a number, and a number beyond the range of a 64-bit int
Num80 == <<"8", "0">>

BigNum == [i \in 1..20 |-> "9"]

\* common.CfgMapKeyRef
CfgMapKeyRef(name, key) == [Name |-> name, Key |-> key]

\* a workload with its references to config maps (envFrom, valueFrom)
WorkloadWithRefs(w, refs, keyRefs) ==
    [w EXCEPT !.ConfigMapRefs = refs, !.ConfigMapKeyRefs = keyRefs]

ResourceDoc(kind, obj) == [root |-> "mapping", k8s |-> TRUE, kind |-> kind, obj |-> obj]

\* a workload that takes its addresses from the config map cfg
ConsumerDoc ==
    ResourceDoc("Deployment",
                WorkloadWithRefs(Workload("front", "shop", <<"app:c">>, <<AddrC7>>),
                                 <<"cfg">>,
                                 <<CfgMapKeyRef("cfg", "HOST"), CfgMapKeyRef("cfg", "PORT")>>))

\* a workload with three references that cannot be resolved
OrphanDoc ==
    ResourceDoc("StatefulSet",
                WorkloadWithRefs(Workload("batch", "shop", <<"app:tc">>, <<AddrC7>>),
                                 <<"gone">>,
                                 <<CfgMapKeyRef("gone", "HOST"), CfgMapKeyRef("cfg", "NOKEY")>>))

\* a workload of another namespace with numbers among its env values
LiteralDoc ==
    ResourceDoc("Job",
                WorkloadWithRefs(Workload("probe", "ops", <<>>, <<Num80, BigNum, AddrC7>>),
                                 <<>>, <<CfgMapKeyRef("cfg", "HOST")>>))

ConfigMapDoc ==
    ResourceDoc("ConfigMap",
                [Namespace |-> "shop", Name |-> "cfg",
                 Data |-> {<<"HOST", AddrC7>>, <<"URL", HttpC7>>, <<"PORT", Num80>>}])

CheckoutDoc == ResourceDoc("Service", Service(NameC, "shop", <<"app:c">>, <<7>>))

BalancerDoc ==
    ResourceDoc("Service",
                [Service(NameTC, "shop", <<"app:tc">>, <<80>>) EXCEPT !.Type = "LoadBalancer"])

NodePortDoc ==
    ResourceDoc("Service", [Service(NameC, "ops", <<>>, <<7>>) EXCEPT !.Type = "NodePort"])

\* a Route to the service c, and an Ingress with the backends c and tc
RouteDoc == ResourceDoc("Route", [Namespace |-> "shop", Backends |-> {NameC}])

IngressDoc == ResourceDoc("Ingress", [Namespace |-> "shop", Backends |-> {NameC, NameTC}])

ManifestCatalog ==
    {ConsumerDoc, OrphanDoc, LiteralDoc, ConfigMapDoc, CheckoutDoc, BalancerDoc,
     NodePortDoc, RouteDoc, IngressDoc}

\* the scan of a single manifest file that holds resources of every kind
InitDocs ==
    /\ pc = "walk"
    /\ resources = <<>>
    /\ links = <<>>
    /\ deploymentServices = <<>>
    /\ connections = <<>>
    /\ stopOn1stErr \in BOOLEAN
    /\ tree \in {WithPaths(<<Entry(FALSE, FALSE, TRUE, TRUE, docs, FALSE)>>) :
                     docs \in SeqsUpTo(ManifestCatalog, MaxDocs)}
    /\ wi = 1
    /\ manifestFiles = <<>>
    /\ fileScanErrors = <<>>
    /\ mi = 0
    /\ yamlDocs = <<>>
    /\ fileProcessingErrors = <<>>
    /\ docID = 0
    /\ workloads = <<>>
    /\ services = <<>>
    /\ configmaps = <<>>
    /\ servicesToExpose = <<>>
    /\ result = <<>>

Next ==
    \/ WalkFn
    \/ SearchReturned
    \/ ParseK8sYaml
    \/ ParseDocument
    \/ ParseK8sYamlReturn
    \/ InlineConfigMapRefsAsEnvs
    \/ ExposeServices
    \/ ExtractConnections

Spec == Init /\ [][Next]_vars

SpecDocs == InitDocs /\ [][Next]_vars

\* ------------------------------------------ error values: the constructors

MaxErrors == 2   \* most errors built and kept

\* the arguments the constructors are given
ErrFilePaths == {NoPath, RepoDir}

LineNums == {0, 1}

DocIDs == {-1, 0, 1}

CfgMapNames == {"shop/cfg", "cfg"}

CfgMapKeys == {"HOST"}

ResourceNames == {"front"}

ResourceTypes == {"Service", "Deployment"}

InitErrors ==
    /\ ScanIdle
    /\ pc = "errors"
    /\ resources = <<>>
    /\ links = <<>>
    /\ deploymentServices = <<>>
    /\ connections = <<>>

\* a constructor may be called: the caller keeps the error it returns
CanBuild == pc = "errors" /\ Len(fileScanErrors) < MaxErrors

\* what the call of a constructor leaves alone
builtVars == <<pc, connVars, stopOn1stErr, tree, walkVars, fileVars, rfVars, result>>

NoYamlsFound ==
    /\ CanBuild
    /\ fileScanErrors' = Append(fileScanErrors, noYamlsFound)
    /\ UNCHANGED builtVars

NoK8sResourcesFound ==
    /\ CanBuild
    /\ fileScanErrors' = Append(fileScanErrors, noK8sResourcesFound)
    /\ UNCHANGED builtVars

ConfigMapNotFound ==
    /\ CanBuild
    /\ \E cfgMapName \in CfgMapNames, resourceName \in ResourceNames :
           fileScanErrors' =
               Append(fileScanErrors, configMapNotFound(cfgMapName, resourceName))
    /\ UNCHANGED builtVars

ConfigMapKeyNotFound ==
    /\ CanBuild
    /\ \E cfgMapName \in CfgMapNames, cfgMapKey \in CfgMapKeys,
          resourceName \in ResourceNames :
           fileScanErrors' =
               Append(fileScanErrors,
                      configMapKeyNotFound(cfgMapName, cfgMapKey, resourceName))
    /\ UNCHANGED builtVars

FailedScanningResource ==
    /\ CanBuild
    /\ \E resourceType \in ResourceTypes, filePath \in ErrFilePaths :
           fileScanErrors' =
               Append(fileScanErrors, failedScanningResource(resourceType, filePath))
    /\ UNCHANGED builtVars

NotK8sResource ==
    /\ CanBuild
    /\ \E filePath \in ErrFilePaths, id \in DocIDs :
           fileScanErrors' = Append(fileScanErrors, notK8sResource(filePath, id))
    /\ UNCHANGED builtVars

MalformedYamlDoc ==
    /\ CanBuild
    /\ \E filePath \in ErrFilePaths, lineNum \in LineNums, id \in DocIDs :
           fileScanErrors' = Append(fileScanErrors, malformedYamlDoc(filePath, lineNum, id))
    /\ UNCHANGED builtVars

FailedReadingFile ==
    /\ CanBuild
    /\ \E filePath \in ErrFilePaths :
           fileScanErrors' = Append(fileScanErrors, failedReadingFile(filePath))
    /\ UNCHANGED builtVars

FailedAccessingDir ==
    /\ CanBuild
    /\ \E dirPath \in ErrFilePaths, isSubDir \in BOOLEAN :
           fileScanErrors' = Append(fileScanErrors, failedAccessingDir(dirPath, isSubDir))
    /\ UNCHANGED builtVars

FailedWalkDir ==
    /\ CanBuild
    /\ \E dirPath \in ErrFilePaths :
           fileScanErrors' = Append(fileScanErrors, failedWalkDir(dirPath))
    /\ UNCHANGED builtVars

\* the methods of an error that was built are called
ReadError ==
    /\ pc = "errors"
    /\ \E k \in 1..Len(fileScanErrors) :
           result' = [File |-> File(fileScanErrors[k]),
                      LineNo |-> LineNo(fileScanErrors[k]),
                      DocumentID |-> DocumentID(fileScanErrors[k]),
                      IsFatal |-> IsFatal(fileScanErrors[k]),
                      IsSevere |-> IsSevere(fileScanErrors[k])]
    /\ UNCHANGED <<pc, connVars, stopOn1stErr, tree, walkVars, fileScanErrors, fileVars,
                   rfVars>>

NextErrors ==
    \/ NoYamlsFound
    \/ NoK8sResourcesFound
    \/ ConfigMapNotFound
    \/ ConfigMapKeyNotFound
    \/ FailedScanningResource
    \/ NotK8sResource
    \/ MalformedYamlDoc
    \/ FailedReadingFile
    \/ FailedAccessingDir
    \/ FailedWalkDir
    \/ ReadError

SpecErrors == InitErrors /\ [][NextErrors]_vars

\* --------------------------------------------- connectivity: the properties

\* the edge of one match: workload w's address names port pi of service j,
\* which fronts workload i
EdgeOf(i, j, pi, w) ==
    Connection(<<[resources[w] EXCEPT !.UsedPorts = <<links[j].Network[pi].Port>>]>>,
               resources[i], links[j])

\* service j fronts workload i: its selectors are all among the workload's labels
Fronts(i, j) == Range(links[j].Selectors) \subseteq Range(resources[i].Selectors)

\* the positions that occur in some address pool, in some port list
EnvIdx == UNION {1..Len(resources[w].Envs) : w \in 1..Len(resources)}

PortIdx == UNION {1..Len(links[j].Network) : j \in 1..Len(links)}

\* the address without its scheme: a literal leading http:// removed, or the
\* scheme removed the way findSource removes it
Strip(literal, e) == IF literal THEN TrimPrefix(e, HttpPrefix) ELSE stripScheme(e)

\* the occurrences <<pi, w, k>> of an address that, once its scheme is removed,
\* is the endpoint name:port of port pi of service j
Occurrences(literal, j) ==
    {t \in (1..Len(links[j].Network)) \X (1..Len(resources)) \X EnvIdx :
        /\ t[3] <= Len(resources[t[2]].Envs)
        /\ Strip(literal, resources[t[2]].Envs[t[3]])
               = Sprintf(links[j].Name, links[j].Network[t[1]].Port)}

CountIn(seq, e) == Cardinality({n \in 1..Len(seq) : seq[n] = e})

\* how often the edge e is due
Due(literal, e) ==
    LET pairs == {ij \in (1..Len(resources)) \X (1..Len(links)) : Fronts(ij[1], ij[2])}
    IN  Cardinality({x \in pairs \X (PortIdx \X (1..Len(resources)) \X EnvIdx) :
                        /\ x[2] \in Occurrences(literal, x[1][2])
                        /\ EdgeOf(x[1][1], x[1][2], x[2][1], x[2][2]) = e})
        + Cardinality({ij \in pairs :
                        /\ Occurrences(literal, ij[2]) = {}
                        /\ Connection(<<>>, resources[ij[1]], links[ij[2]]) = e})

DueEdges ==
    {EdgeOf(x[1], x[2], x[3], x[4]) :
        x \in {y \in (1..Len(resources)) \X (1..Len(links)) \X PortIdx \X (1..Len(resources)) :
                   y[3] <= Len(links[y[2]].Network)}}
    \cup {Connection(<<>>, resources[ij[1]], links[ij[2]]) :
              ij \in (1..Len(resources)) \X (1..Len(links))}

EdgesAre(literal) ==
    \A e \in Range(connections) \cup DueEdges :
        CountIn(connections, e) = Due(literal, e)

\* C1: discoverConnections emits, for each (target T, service S fronting T), one
\* edge per (port p of S, workload W, occurrence in W's pool of an address that is
\* S.name:p once a literal leading http:// is removed), k occurrences giving k
\* edges, exactly one edge with an absent source when there is no such
\* occurrence, and no other edge.
C1_EdgesPerOccurrence == pc = "analyzed" => EdgesAre(TRUE)

\* the same statement with the scheme removed the way findSource removes it
EdgesPerOccurrenceAsStripped == pc = "analyzed" => EdgesAre(FALSE)

\* C2: areSelectorsContained(S1, S2) is true iff every element of S2 is an
\* element of S1 (an empty S2 matches every S1, an empty S1 only an empty S2),
\* and findServices returns exactly the services for which it holds, in input
\* order.
C2_SelectorContainment ==
    pc = "analyzed" =>
        LET lists == {resources[i].Selectors : i \in 1..Len(resources)}
                     \cup {links[j].Selectors : j \in 1..Len(links)}
        IN  /\ \A s1 \in lists, s2 \in lists :
                   /\ areSelectorsContained(s1, s2) <=> Range(s2) \subseteq Range(s1)
                   /\ s2 = <<>> => areSelectorsContained(s1, s2)
                   /\ s1 = <<>> => (areSelectorsContained(s1, s2) <=> s2 = <<>>)
            /\ \A i \in 1..Len(resources) :
                   LET Test(l) == Range(l.Selectors) \subseteq Range(resources[i].Selectors)
                   IN  deploymentServices[i] = SelectSeq(links, Test)

\* a workload with two labels in front of which one of two services is found,
\* the other being refused for a label that differs in case only
C2_Witness ==
    /\ pc = "analyzed"
    /\ Len(links) = 2
    /\ \E i \in 1..Len(resources) :
           /\ Len(resources[i].Selectors) = 2
           /\ deploymentServices[i] = <<links[2]>>
           /\ links[2].Selectors = <<"app:c">>
           /\ links[1].Selectors = <<"App:c">>

\* C3: an address matches the endpoint N:P of a service exactly when it is N:P
\* or http://N:P; https://N:P and every other string do not match, and no
\* character of the host name is removed.
C3_ExactMatchAfterHttpStrip ==
    pc = "analyzed" =>
        \A i \in 1..Len(resources), j \in 1..Len(links), w \in 1..Len(resources) :
            \A pi \in 1..Len(links[j].Network) :
                Fronts(i, j) =>
                    LET ep == Sprintf(links[j].Name, links[j].Network[pi].Port)
                    IN  (EdgeOf(i, j, pi, w) \in Range(connections))
                            <=> \E k \in 1..Len(resources[w].Envs) :
                                    resources[w].Envs[k] \in {ep, HttpPrefix \o ep}

\* ----------------------------------------------------- scan: the properties

\* every error recorded so far, in the order of recording
Recorded == fileScanErrors \o fileProcessingErrors

NoRecords(r) ==
    /\ r.workloads = <<>>
    /\ r.services = <<>>
    /\ r.configmaps = <<>>
    /\ r.connections = <<>>

\* C4: in fail-fast mode a scan that meets one or more errors returns exactly
\* one error and no record: no workload, service, config map or connection.
C4_FailFastOneErrorNoRecords ==
    (pc = "returned" /\ stopOn1stErr /\ Len(fileScanErrors) >= 1) =>
        /\ Len(result.errors) = 1
        /\ NoRecords(result)

\* C5: in fail-fast mode, once an error of any severity is recorded, no later
\* document of the file and no later file is parsed: no record is appended to
\* a collection of the resourceFinder and no second error is recorded.
C5_FailFastHaltsAtFirstError ==
    [][(stopOn1stErr /\ Recorded # <<>>) =>
           /\ ~(pc = "docs" /\ docID' = docID + 1)
           /\ ~(pc = "file" /\ pc' = "docs")
           /\ UNCHANGED rfVars
           /\ Recorded' = Recorded]_vars

\* the YAML files among the paths of the tree, by index
IsYamlFile(f) == ~f.err /\ ~f.isDir /\ f.yaml

YamlFiles == {i \in 1..Len(tree) : IsYamlFile(tree[i])}

RelPath(i) == pathWithoutBaseDir(tree[i].path, RepoDir)

IsMappingDoc(d) == d.root = "mapping"

IsWorkloadDoc(d) == IsMappingDoc(d) /\ d.k8s /\ d.kind \in WorkloadKinds

IsServiceDoc(d) == IsMappingDoc(d) /\ d.k8s /\ d.kind = "Service"

IsBadDoc(d) == IsMappingDoc(d) /\ (~d.k8s \/ d.kind \in {"Pod", "CronTab"})

\* the records the documents docs of the file at relative path rel stand for
RecordsOf(docs, rel) ==
    [n \in 1..Len(docs) |-> [docs[n].obj EXCEPT !.FilePath = rel]]

\* the records of a collection that come from the file at relative path rel
FromFile(records, rel) ==
    LET From(r) == r.FilePath = rel
    IN  SelectSeq(records, From)

\* how many of the errors errs carry the message msg and the path filePath
NumErrors(errs, msg, filePath) ==
    Cardinality({k \in 1..Len(errs) : errs[k].msg = msg /\ errs[k].filePath = filePath})

NotK8sMsg == "Yaml document is not a K8s resource"

MalformedMsg == "YAML document is malformed"

AccessMsg == "error accessing directory"

\* every mapping document of the i-th path has been parsed: each well-formed
\* one gave its record, in file order, and each bad one gave one error
AllParsed(i) ==
    LET docs == tree[i].docs
        blocks == SelectSeq(docs, IsMappingDoc)
    IN  /\ FromFile(workloads, RelPath(i)) = RecordsOf(SelectSeq(docs, IsWorkloadDoc), RelPath(i))
        /\ FromFile(services, RelPath(i)) = RecordsOf(SelectSeq(docs, IsServiceDoc), RelPath(i))
        /\ \A b \in 1..Len(blocks) :
               Cardinality({k \in 1..Len(fileScanErrors) :
                               /\ fileScanErrors[k].msg = NotK8sMsg
                               /\ fileScanErrors[k].filePath = RelPath(i)
                               /\ fileScanErrors[k].docID = b - 1})
                   = IF blocks[b].k8s THEN 0 ELSE 1
        /\ \A kind \in {"Pod", "CronTab"} :
               NumErrors(fileScanErrors, "error scanning " \o kind \o " resource", RelPath(i))
                   = Cardinality({n \in 1..Len(docs) :
                                     IsMappingDoc(docs[n]) /\ docs[n].k8s /\ docs[n].kind = kind})

\* C6: in best-effort mode a document that does not decode as a K8s resource,
\* or whose recognized kind fails to parse, is recorded as one non-fatal,
\* non-severe error and skipped; every other mapping document of the file and
\* of the later files is parsed, and the scan returns all records and errors.
C6_BestEffortSkipsBadDocument ==
    (pc = "scanned" /\ ~stopOn1stErr /\ ~tree[1].err) =>
        /\ \A i \in YamlFiles : AllParsed(i)
        /\ \A k \in 1..Len(fileScanErrors) :
               (\/ fileScanErrors[k].msg = NotK8sMsg
                \/ fileScanErrors[k].msg \in {"error scanning Pod resource",
                                              "error scanning CronTab resource"})
                   => ~fileScanErrors[k].fatal /\ ~fileScanErrors[k].severe

\* a bad document in one file, and a record out of a later file
C6_Witness ==
    /\ pc = "scanned"
    /\ ~stopOn1stErr
    /\ \E i, j \in YamlFiles :
           /\ i < j
           /\ \E n \in 1..Len(tree[i].docs) : IsBadDoc(tree[i].docs[n])
           /\ NumErrors(fileScanErrors, NotK8sMsg, RelPath(i)) >= 1
           /\ FromFile(workloads, RelPath(j)) # <<>>

\* C7: the docID of a malformed-document error is the number of documents of
\* the file decoded before the failing one, the non-mapping ones counted too.
C7_MalformedDocIDCountsAllDocuments ==
    \A k \in 1..Len(Recorded) :
        Recorded[k].msg = MalformedMsg =>
            Recorded[k].docID = Len(FileAt(Recorded[k].filePath).docs)

\* a malformed-document error of a file with a non-mapping document before the
\* failing one
C7_Witness ==
    \E k \in 1..Len(Recorded) :
        /\ Recorded[k].msg = MalformedMsg
        /\ Recorded[k].docID = 2
        /\ \E n \in 1..2 : ~IsMappingDoc(FileAt(Recorded[k].filePath).docs[n])

\* C8: the splitter returns one block per mapping document, in file order, and
\* drops a non-mapping document with no block and no error; a decode failure
\* gives exactly one malformed-document error, severe and not fatal, with the
\* blocks of the mapping documents before it, and best-effort mode still
\* parses those into records.
C8_SplitterBlocksAndMalformedError ==
    /\ \A i \in YamlFiles :
           tree[i].readable =>
               LET split == splitByYamlDocuments(tree[i].path, tree[i])
               IN  /\ split.documents = SelectSeq(tree[i].docs, IsMappingDoc)
                   /\ Len(split.errors) = IF tree[i].malformed THEN 1 ELSE 0
                   /\ \A k \in 1..Len(split.errors) :
                          /\ split.errors[k].msg = MalformedMsg
                          /\ split.errors[k].severe
                          /\ ~split.errors[k].fatal
    /\ pc = "docs" =>
           /\ yamlDocs = SelectSeq(FileAt(manifestFiles[mi]).docs, IsMappingDoc)
           /\ NumErrors(fileProcessingErrors, MalformedMsg, manifestFiles[mi])
                  = IF FileAt(manifestFiles[mi]).malformed THEN 1 ELSE 0
    /\ (pc = "scanned" /\ ~stopOn1stErr /\ ~tree[1].err) =>
           \A i \in YamlFiles :
               tree[i].malformed =>
                   /\ AllParsed(i)
                   /\ NumErrors(fileScanErrors, MalformedMsg, tree[i].path) = 1

\* best-effort mode has parsed the record of a mapping document that stands,
\* with a non-mapping one, before the decode failure of its file
C8_Witness ==
    /\ pc = "scanned"
    /\ ~stopOn1stErr
    /\ \E i \in YamlFiles :
           /\ tree[i].malformed
           /\ \E n \in 1..Len(tree[i].docs) : ~IsMappingDoc(tree[i].docs[n])
           /\ FromFile(workloads, RelPath(i)) # <<>>
           /\ NumErrors(fileScanErrors, MalformedMsg, tree[i].path) = 1

PathsOf(files) == [n \in 1..Len(files) |-> files[n].path]

ErrorPaths == {i \in 1..Len(tree) : tree[i].err}

FirstErrorPath == CHOOSE i \in ErrorPaths : \A j \in ErrorPaths : i <= j

\* C9: an access failure on a path under the root is recorded as a severe,
\* non-fatal error and one on the root as a fatal error; in best-effort mode
\* the failing path is skipped and the walk goes on with the remaining
\* entries; in fail-fast mode the first failure ends the walk.
C9_WalkAccessFailures ==
    /\ \A k \in 1..Len(fileScanErrors) :
           fileScanErrors[k].msg = AccessMsg =>
               /\ fileScanErrors[k].severe
               /\ fileScanErrors[k].fatal <=> fileScanErrors[k].filePath = RepoDir
    /\ (pc # "walk" /\ ~stopOn1stErr /\ ~tree[1].err) =>
           /\ wi = Len(tree) + 1
           /\ manifestFiles = PathsOf(SelectSeq(tree, IsYamlFile))
           /\ \A i \in ErrorPaths : NumErrors(fileScanErrors, AccessMsg, tree[i].path) = 1
    /\ (pc # "walk" /\ stopOn1stErr /\ ErrorPaths # {}) =>
           /\ wi = FirstErrorPath + 1
           /\ manifestFiles = PathsOf(SelectSeq(SubSeq(tree, 1, FirstErrorPath - 1), IsYamlFile))
           /\ \A i \in ErrorPaths :
                  NumErrors(fileScanErrors, AccessMsg, tree[i].path)
                      = IF i = FirstErrorPath THEN 1 ELSE 0

\* the best-effort walk has found a YAML file after a path that it could not
\* access
C9_Witness ==
    /\ pc = "searched"
    /\ ~stopOn1stErr
    /\ \E i \in ErrorPaths, j \in YamlFiles :
           /\ 1 < i
           /\ i < j
           /\ NumErrors(fileScanErrors, AccessMsg, tree[i].path) = 1
           /\ \E n \in 1..Len(manifestFiles) : manifestFiles[n] = tree[j].path

\* C10: when the root cannot be accessed the scan returns exactly one error,
\* the directory-access error, without a "no yaml files found" error and
\* without a record, in both modes, and the one-call API reports it as fatal.
C10_InaccessibleRoot ==
    tree[1].err =>
        /\ pc \in {"scanned", "returned"} =>
               /\ Len(fileScanErrors) = 1
               /\ fileScanErrors[1].msg = AccessMsg
               /\ fileScanErrors[1].filePath = RepoDir
               /\ workloads = <<>> /\ services = <<>> /\ configmaps = <<>>
        /\ pc = "returned" =>
               /\ result.errors = fileScanErrors
               /\ NoRecords(result)
               /\ result.fatal

\* the best-effort scan of a root that cannot be accessed has returned
C10_Witness ==
    /\ pc = "returned"
    /\ ~stopOn1stErr
    /\ tree[1].err
    /\ Len(result.errors) = 1

\* ------------------------------------- connectivity: the edge-case properties

\* C15: for a service whose port list is empty no endpoint string is
\* constructed and discoverConnections emits no edge whose link is that
\* service, whatever the workloads are.
C15_NoEdgeOfPortlessService ==
    pc = "analyzed" =>
        \A k \in 1..Len(connections) : connections[k].Link.Network # <<>>

\* C16: for a workload whose label set is empty findServices returns no
\* service, whatever the services are, and discoverConnections emits no edge
\* whose target is that workload.
C16_NoServiceOfUnlabelledWorkload ==
    pc = "analyzed" =>
        \A i \in 1..Len(resources) :
            resources[i].Selectors = <<>> =>
                /\ deploymentServices[i] = <<>>
                /\ \A k \in 1..Len(connections) : connections[k].Target # resources[i]

\* the workloads handed to discoverConnections are told apart by their names
DistinctWorkloads ==
    \A i, j \in 1..Len(resources) :
        (resources[i].Name = resources[j].Name
            /\ resources[i].Namespace = resources[j].Namespace) => i = j

\* C17: the callers of a service that fronts workload T are looked for among
\* the workloads other than T: no edge has a source that is the same workload
\* as its target, even when T's own address pool holds the endpoint.
C17_NoSelfEdge ==
    (pc = "analyzed" /\ DistinctWorkloads) =>
        \A k \in 1..Len(connections) :
            connections[k].Source # <<>> =>
                ~ /\ connections[k].Source[1].Name = connections[k].Target.Name
                  /\ connections[k].Source[1].Namespace = connections[k].Target.Namespace

\* ----------------------------------------- scan: documents and their errors

\* the kinds the classifier is specified to accept
SupportedKinds == WorkloadKinds \cup {"Service", "ConfigMap", "Route", "Ingress"}

\* C14: a document that decodes to a well-formed K8s resource of an
\* unsupported kind (a bare Pod, a CronJob) is skipped: parsing it adds no
\* record to any collection and no error, in either mode.
C14_UnsupportedKindIsSkipped ==
    [][(/\ pc = "docs"
        /\ docID < Len(yamlDocs)
        /\ docID' = docID + 1
        /\ yamlDocs[docID + 1].k8s
        /\ yamlDocs[docID + 1].kind \notin SupportedKinds)
           => /\ UNCHANGED rfVars
              /\ fileProcessingErrors' = fileProcessingErrors]_vars

\* C18: every malformed-document error of the splitter carries a line number
\* of at least 1, the line where the failing document starts, and never the
\* value 0 that stands for an unknown line.
C18_MalformedErrorHasLine ==
    \A k \in 1..Len(Recorded) :
        Recorded[k].msg = MalformedMsg => Recorded[k].lineNum >= 1

\* ------------------------------------ scan: resolution of the references

\* the pending references to single keys, by workload and position
KeySlots == UNION {{<<i, r>> : r \in 1..Len(workloads[i].ConfigMapKeyRefs)} :
                      i \in 1..Len(workloads)}

WholeRefName(slot) ==
    workloads[slot[1]].Namespace \o "/" \o workloads[slot[1]].ConfigMapRefs[slot[2]]

KeyRefName(slot) ==
    workloads[slot[1]].Namespace \o "/" \o workloads[slot[1]].ConfigMapKeyRefs[slot[2]].Name

\* the config map of that full name is among the config maps found
MapExists(fullName) == \E n \in 1..Len(configmaps) : configmaps[n].FullName = fullName

\* the config map the reference of the slot names has the key it names
KeyExists(slot) ==
    \E kv \in cfgMapsByName(configmaps, KeyRefName(slot))[1].Data :
        kv[1] = workloads[slot[1]].ConfigMapKeyRefs[slot[2]].Key

NotFoundMsg(fullName, resourceName) ==
    "configmap " \o fullName \o " not found (referenced by " \o resourceName \o ")"

KeyNotFoundMsg(name, key, resourceName) ==
    "configmap " \o name \o " does not have key " \o key
        \o " (referenced by " \o resourceName \o ")"

\* the message of the error a reference is due, or "" when it is due none
WholeRefMsg(slot) ==
    IF MapExists(WholeRefName(slot)) THEN ""
    ELSE NotFoundMsg(WholeRefName(slot), workloads[slot[1]].Name)

KeyRefMsg(slot) ==
    IF ~MapExists(KeyRefName(slot))
    THEN NotFoundMsg(KeyRefName(slot), workloads[slot[1]].Name)
    ELSE IF ~KeyExists(slot)
    THEN KeyNotFoundMsg(workloads[slot[1]].ConfigMapKeyRefs[slot[2]].Name,
                        workloads[slot[1]].ConfigMapKeyRefs[slot[2]].Key,
                        workloads[slot[1]].Name)
    ELSE ""

\* the errors of inlineConfigMapRefsAsEnvs among the errors recorded
IsResolutionError(e) ==
    /\ e.filePath = NoPath
    /\ e.msg \notin {"no yaml files found", "no relevant Kubernetes resources found"}

ResolutionErrors == SelectSeq(fileScanErrors, IsResolutionError)

NumMsg(errs, msg) == Cardinality({k \in 1..Len(errs) : errs[k].msg = msg})

\* C11: every pending reference, to a whole map or to a single key, whose
\* config map is absent gives exactly one config-map-not-found error, and
\* every single-key reference whose map exists but lacks the key gives exactly
\* one key-not-found error, a distinct one; these errors are non-fatal and
\* non-severe, and the resolution goes on with the remaining references and
\* workloads.
C11_UnresolvedReferenceErrors ==
    pc = "resolved" =>
        /\ \A k \in 1..Len(ResolutionErrors) :
               /\ ~ResolutionErrors[k].fatal
               /\ ~ResolutionErrors[k].severe
               /\ \/ \E slot \in RefSlots(workloads) :
                         WholeRefMsg(slot) = ResolutionErrors[k].msg
                  \/ \E slot \in KeySlots : KeyRefMsg(slot) = ResolutionErrors[k].msg
        /\ \A slot \in RefSlots(workloads) :
               WholeRefMsg(slot) # "" =>
                   NumMsg(ResolutionErrors, WholeRefMsg(slot))
                       = Cardinality({w \in RefSlots(workloads) :
                                         WholeRefMsg(w) = WholeRefMsg(slot)})
                         + Cardinality({y \in KeySlots : KeyRefMsg(y) = WholeRefMsg(slot)})
        /\ \A slot \in KeySlots :
               KeyRefMsg(slot) # "" =>
                   NumMsg(ResolutionErrors, KeyRefMsg(slot))
                       = Cardinality({w \in RefSlots(workloads) :
                                         WholeRefMsg(w) = KeyRefMsg(slot)})
                         + Cardinality({y \in KeySlots : KeyRefMsg(y) = KeyRefMsg(slot)})

\* three references that cannot be resolved have given three errors, of the
\* two kinds, and the references of a later workload are resolved
C11_Witness ==
    /\ pc = "resolved"
    /\ Len(workloads) >= 2
    /\ \E i \in 1..Len(workloads) :
           /\ i < Len(workloads)
           /\ Len(workloads[i].ConfigMapRefs) + Len(workloads[i].ConfigMapKeyRefs) = 3
           /\ \A r \in 1..Len(workloads[i].ConfigMapRefs) : WholeRefMsg(<<i, r>>) # ""
           /\ \A r \in 1..Len(workloads[i].ConfigMapKeyRefs) : KeyRefMsg(<<i, r>>) # ""
           /\ \E r \in 1..Len(workloads[i].ConfigMapKeyRefs) :
                  MapExists(KeyRefName(<<i, r>>))
           /\ NumMsg(ResolutionErrors, KeyRefMsg(<<i, 1>>)) >= 1
    /\ Len(ResolutionErrors) >= 4

\* the documents of the scanned file that describe workloads, in file order
WorkloadDocs == SelectSeq(tree[1].docs, LAMBDA d : d.k8s /\ d.kind \in WorkloadKinds)

\* the pool of the i-th workload as its own scan left it
ScannedPool(i) == SelectSeq(WorkloadDocs[i].obj.Envs, IsNetworkAddressValue)

\* what the resolution appended to the pool of the i-th workload
Inlined(i) == SubSeq(workloads[i].Envs, Len(ScannedPool(i)) + 1, Len(workloads[i].Envs))

\* the address-like entries of the config map of that name, as the file has them
AddressData(fullName) ==
    UNION {{kv \in d.obj.Data : IsNetworkAddressValue(kv[2])} :
              d \in {x \in Range(tree[1].docs) :
                        /\ x.k8s
                        /\ x.kind = "ConfigMap"
                        /\ x.obj.Namespace \o "/" \o x.obj.Name = fullName}}

\* every entry of every config map of the file
AllPairs == UNION {d.obj.Data : d \in {x \in Range(tree[1].docs) : x.k8s /\ x.kind = "ConfigMap"}}

\* how often the resolution owes the value v to the pool of the i-th workload
Owed(i, v) ==
    Cardinality({x \in {slot \in RefSlots(workloads) : slot[1] = i} \X AllPairs :
                    x[2][2] = v /\ x[2] \in AddressData(WholeRefName(x[1]))})
    + Cardinality({slot \in KeySlots :
                      /\ slot[1] = i
                      /\ <<workloads[i].ConfigMapKeyRefs[slot[2]].Key, v>>
                             \in AddressData(KeyRefName(slot))})

\* C12: after the resolution the pool of every workload is its pool of before,
\* as a prefix, followed by every address-like value of each config map it
\* references as a whole and that exists, and by one address for each of its
\* key references whose map and key exist and whose value is address-like, and
\* by nothing else, wherever in the scan the config map was met.
C12_PoolAfterResolution ==
    pc = "resolved" =>
        /\ Len(workloads) = Len(WorkloadDocs)
        /\ \A i \in 1..Len(workloads) :
               /\ SubSeq(workloads[i].Envs, 1, Len(ScannedPool(i))) = ScannedPool(i)
               /\ \A v \in Range(Inlined(i)) \cup {kv[2] : kv \in AllPairs} :
                      CountIn(Inlined(i), v) = Owed(i, v)

\* a workload scanned before the config map it references has the map's
\* addresses after its own, one more than the map has values
C12_Witness ==
    /\ pc = "resolved"
    /\ \E i \in 1..Len(workloads) :
           /\ ScannedPool(i) # <<>>
           /\ Len(Inlined(i)) >= 3
           /\ \E n \in 1..Len(tree[1].docs) :
                  /\ tree[1].docs[n].kind = "ConfigMap"
                  /\ \E k \in 1..(n - 1) :
                         /\ tree[1].docs[k].kind \in WorkloadKinds
                         /\ tree[1].docs[k].obj.Name = workloads[i].Name

\* --------------------------------------------- scan: exposure of services

TableKey(svc) == <<svc.Namespace, svc.Name>>

\* the flags the scan of a Service document gives the service
HasCreationFlags(svc) ==
    /\ svc.ExposeExternally = (svc.Type \in {"LoadBalancer", "NodePort"})
    /\ svc.ExposeToCluster = FALSE

\* C13: wherever in the input the Service document stands relative to the
\* Route and Ingress documents that reference it, no service's flags change
\* before exposeServices runs, which is after the scan; after it a service of
\* the table has an exposure flag set, the external one when the table's value
\* is true and the cluster-internal one otherwise, and a service that is not
\* in the table has the flags of its creation.
C13_ExposureAfterScan ==
    /\ pc \notin {"exposed", "returned"} =>
           \A i \in 1..Len(services) : HasCreationFlags(services[i])
    /\ pc = "exposed" =>
           \A i \in 1..Len(services) :
               IF TableKey(services[i]) \in DOMAIN servicesToExpose
               THEN IF servicesToExpose[TableKey(services[i])]
                    THEN services[i].ExposeExternally
                    ELSE services[i].ExposeToCluster
               ELSE HasCreationFlags(services[i])

\* a service declared before the Route that references it is exposed to the
\* cluster
C13_Witness ==
    /\ pc = "exposed"
    /\ \E i \in 1..Len(services) :
           /\ services[i].ExposeToCluster
           /\ \E n \in 1..Len(tree[1].docs) :
                  /\ tree[1].docs[n].kind = "Route"
                  /\ services[i].Name \in tree[1].docs[n].obj.Backends
                  /\ services[i].Namespace = tree[1].docs[n].obj.Namespace
                  /\ \E k \in 1..(n - 1) :
                         /\ tree[1].docs[k].kind = "Service"
                         /\ tree[1].docs[k].obj.Name = services[i].Name
                         /\ tree[1].docs[k].obj.Namespace = services[i].Namespace
                  /\ \A k \in 1..Len(tree[1].docs) : tree[1].docs[k].kind # "Ingress"

\* C20: after the scan and exposeServices the external-exposure flag of a
\* service is true iff its type is LoadBalancer or NodePort, the
\* cluster-internal flag is true iff the namespace and name of the service are
\* in the exposure table, and every value the Route and Ingress scanners have
\* written into the table is false.
C20_ExternalByTypeOnly ==
    /\ \A key \in DOMAIN servicesToExpose : servicesToExpose[key] = FALSE
    /\ pc = "exposed" =>
           \A i \in 1..Len(services) :
               /\ services[i].ExposeExternally
                      <=> services[i].Type \in {"LoadBalancer", "NodePort"}
               /\ services[i].ExposeToCluster
                      <=> TableKey(services[i]) \in DOMAIN servicesToExpose

\* a LoadBalancer service behind an Ingress has both flags, a NodePort service
\* of another namespace only the external one
C20_Witness ==
    /\ pc = "exposed"
    /\ \E i \in 1..Len(services) :
           /\ services[i].Type = "LoadBalancer"
           /\ services[i].ExposeExternally
           /\ services[i].ExposeToCluster
    /\ \E i \in 1..Len(services) :
           /\ services[i].Type = "NodePort"
           /\ services[i].ExposeExternally
           /\ ~services[i].ExposeToCluster
           /\ \E key \in DOMAIN servicesToExpose : key[2] = services[i].Name

\* ------------------------------------------- scan: the address heuristic

\* a string of decimal digits and nothing else
PurelyNumeric(value) == value # <<>> /\ \A n \in 1..Len(value) : value[n] \in Range(Digits)

\* a string that parses as a URL and is not a number
AddressLike(value) == UrlParseOk(value) /\ ~PurelyNumeric(value)

\* C19: a value is taken for a network address iff it parses as a URL and is
\* not a plain integer, so a purely numeric string is never recorded and every
\* other URL-parseable string is; the literal values of a workload and the
\* values of a config map are selected by this one predicate.
C19_AddressIffUrlAndNotNumber ==
    pc = "scanned" =>
        /\ Len(workloads) = Len(WorkloadDocs)
        /\ \A i \in 1..Len(workloads) :
               workloads[i].Envs = SelectSeq(WorkloadDocs[i].obj.Envs, AddressLike)
        /\ \A n \in 1..Len(configmaps) :
               \A kv \in AllPairs :
                   kv \in configmaps[n].Data => AddressLike(kv[2])

\* ------------------------------------------ connectivity: the namespaces

\* C21: every edge links a service and a target workload of one namespace; a
\* service never fronts a workload of another namespace, even when the labels
\* of the workload contain all the selectors of the service.
C21_EdgeWithinNamespace ==
    pc = "analyzed" =>
        \A k \in 1..Len(connections) :
            connections[k].Link.Namespace = connections[k].Target.Namespace

\* ------------------------------------- scan: the keys of the config maps

\* the entries the ConfigMap documents of that name declare, as the file has
\* them
DeclaredData(fullName) ==
    UNION {d.obj.Data : d \in {x \in Range(tree[1].docs) :
                                  /\ x.k8s
                                  /\ x.kind = "ConfigMap"
                                  /\ x.obj.Namespace \o "/" \o x.obj.Name = fullName}}

\* the key the reference of the slot names is declared in its config map
KeyDeclared(slot) ==
    \E kv \in DeclaredData(KeyRefName(slot)) :
        kv[1] = workloads[slot[1]].ConfigMapKeyRefs[slot[2]].Key

\* C22: a key-not-found error is reported for a single-key reference only when
\* the key is absent from the data the ConfigMap document declares; a declared
\* key whose value fails the address heuristic gives no error and no address.
C22_KeyNotFoundOnlyIfUndeclared ==
    pc = "resolved" =>
        \A slot \in KeySlots :
            KeyDeclared(slot) =>
                NumMsg(ResolutionErrors,
                       KeyNotFoundMsg(workloads[slot[1]].ConfigMapKeyRefs[slot[2]].Name,
                                      workloads[slot[1]].ConfigMapKeyRefs[slot[2]].Key,
                                      workloads[slot[1]].Name)) = 0

\* --------------------------------------- scan: the numbering of documents

\* C23: the document ID of a not-a-K8s-resource error is the 0-based position
\* of the document among all the documents of its file, the numbering of the
\* malformed-document errors, also when dropped non-mapping documents precede
\* the document.
C23_NotK8sDocIDIsFilePosition ==
    [][(/\ pc = "docs"
        /\ docID < Len(yamlDocs)
        /\ docID' = docID + 1
        /\ ~yamlDocs[docID + 1].k8s)
           => /\ Len(fileProcessingErrors') = Len(fileProcessingErrors) + 1
              /\ fileProcessingErrors'[Len(fileProcessingErrors')].msg = NotK8sMsg
              /\ fileProcessingErrors'[Len(fileProcessingErrors')].docID
                     = yamlDocs[docID + 1].ord]_vars

\* ------------------------------------------------ error values: the bits

\* C24: every error a constructor builds, whatever its arguments, is severe
\* when it is fatal; its file, line, document ID and severity bits never change
\* once it is built; and its document ID is reported as unavailable exactly
\* when it is negative.
C24_ErrorValues ==
    /\ [](\A k \in 1..Len(fileScanErrors) :
              /\ IsFatal(fileScanErrors[k]) => IsSevere(fileScanErrors[k])
              /\ DocumentID(fileScanErrors[k])[2] <=> fileScanErrors[k].docID >= 0
              /\ DocumentID(fileScanErrors[k])[2] =>
                     DocumentID(fileScanErrors[k])[1] = fileScanErrors[k].docID)
    /\ [][\A k \in 1..Len(fileScanErrors) :
              /\ k <= Len(fileScanErrors')
              /\ fileScanErrors'[k] = fileScanErrors[k]]_vars

\* a fatal error without a document ID and an error with one are built, and the
\* methods of the first are called after the second was built
C24_Witness ==
    /\ pc = "errors"
    /\ Len(fileScanErrors) = 2
    /\ IsFatal(fileScanErrors[1])
    /\ fileScanErrors[1].docID < 0
    /\ fileScanErrors[2].docID >= 0
    /\ DOMAIN result # {}
    /\ result.IsFatal
    /\ ~result.DocumentID[2]

====
